---- MODULE Spec2Model ----
(***************************************************************************)
(* Inline code-completion pipeline of kilocode: the completion cache       *)
(* (CompletionCache.ts) and the request lifecycle of the inline completion *)
(* provider (AutocompleteProvider.ts and its preview-manager variant).     *)
(*                                                                         *)
(* Text is a sequence of one-character strings.  Time is the value of      *)
(* Date.now() in milliseconds.                                             *)
(***************************************************************************)
EXTENDS Integers, Sequences, FiniteSets, TLC

VARIABLES
    cache,      \* CompletionCache.cache: the Map, as its entries in insertion order
    maxSize,    \* CompletionCache.maxSize
    ttl,        \* CompletionCache.ttl
    now,        \* Date.now()
    lastOp,     \* the last operation performed through the cache API
    variant,              \* which of the three sources of AutocompleteProvider runs
    enabled,              \* AutocompleteProvider.enabled
    apiHandler,           \* AutocompleteProvider.apiHandler: "null" or "handler"
    activeCompletionId,   \* AutocompleteProvider.activeCompletionId: 0 is null
    debounceTimeout,      \* AutocompleteProvider.debounceTimeout: 0 is null
    currentGhostText,     \* currentGhostText of the provider or of its preview manager
    isShowingDecoration,  \* isShowingDecoration of the provider or of its preview manager
    docText,              \* document.getText() of the document the triggers are for
    requests,             \* the calls of provideInlineCompletionItems, by order of arrival
    lastCall,   \* the last call of a function without state (normalizer, prompt renderer)
    streamer    \* a CompletionStreamer and the streamCompletion call made on it

cacheVars == <<cache, maxSize, ttl, now, lastOp>>

providerVars == <<variant, enabled, apiHandler, activeCompletionId, debounceTimeout,
                  currentGhostText, isShowingDecoration, docText, requests>>

componentVars == <<lastCall, streamer>>

vars == <<cache, maxSize, ttl, now, lastOp, variant, enabled, apiHandler,
          activeCompletionId, debounceTimeout, currentGhostText, isShowingDecoration,
          docText, requests, lastCall, streamer>>

(***************************************************************************)
(* Bounds of the model.                                                    *)
(***************************************************************************)
MaxNow == 2          \* the clock of the cache specification runs from 0 to MaxNow
MaxCacheSize == 2    \* the cache specification constructs caches of maxSize 0..MaxCacheSize
MaxTtl == 1          \* the cache specification constructs caches of ttl 0..MaxTtl
MaxReq == 2          \* calls of provideInlineCompletionItems in one behaviour
MaxChunks == 2       \* Stream Events one model stream delivers at most
MaxInterior == 3     \* characters between the fences of a normalizer input, at most
MaxCalls == 2        \* streamCompletion calls of one CompletionStreamer
MaxText == 9         \* characters of a text given to the normalizer, at most
MaxDoc == 3          \* characters of a document an accepted ghost text is inserted into, at most
MaxElapse == 1       \* times the provider specification lets a whole ttl pass

(***************************************************************************)
(* Program constants.                                                      *)
(***************************************************************************)
contextSize == 200       \* characters before the cursor that enter the key
DefaultMaxSize == 100    \* constructor default of maxSize
DefaultTtl == 60000      \* constructor default of ttl, 60 * 1000
MinTypedLength == 4      \* typed length below which the selection guard suppresses

Max(a, b) == IF a >= b THEN a ELSE b
Min(a, b) == IF a <= b THEN a ELSE b

(***************************************************************************)
(* String.prototype.substring(start, end): both indices are clamped to     *)
(* [0, length] and swapped when start > end; indices are 0-based and end   *)
(* is exclusive.                                                           *)
(***************************************************************************)
substring(s, start, end) ==
    LET a == Min(Max(start, 0), Len(s))
        b == Min(Max(end, 0), Len(s))
    IN  SubSeq(s, Min(a, b) + 1, Max(a, b))

(***************************************************************************)
(* CompletionCache.generateKey.  The key string                            *)
(* `${filepath}:${cursorIndex}:${contextWindow}` is kept as its three      *)
(* components.                                                             *)
(***************************************************************************)
generateKey(filepath, content, cursorIndex) ==
    LET startIndex == Max(0, cursorIndex - contextSize)
        contextWindow == substring(content, startIndex, cursorIndex)
    IN  <<filepath, cursorIndex, contextWindow>>

(***************************************************************************)
(* The Map<string, CacheEntry>.  An entry is                               *)
(*   [key, completion, timestamp, createdAt, touched]                      *)
(* where createdAt and touched are history fields the code does not have:  *)
(* the time of the set that stored the entry, and the rank of the entry in *)
(* the order of the last touches (1 is the least recently touched entry;   *)
(* a set and a successful get are touches).                                *)
(***************************************************************************)
MapHas(c, key) == \E i \in 1..Len(c) : c[i].key = key

MapIndex(c, key) == CHOOSE i \in 1..Len(c) : c[i].key = key

\* Map.prototype.delete
MapDelete(c, key) ==
    IF MapHas(c, key)
    THEN LET i == MapIndex(c, key) IN SubSeq(c, 1, i - 1) \o SubSeq(c, i + 1, Len(c))
    ELSE c

\* Map.prototype.set: an existing key keeps its place in the insertion order
MapSet(c, entry) ==
    IF MapHas(c, entry.key)
    THEN [c EXCEPT ![MapIndex(c, entry.key)] = entry]
    ELSE Append(c, entry)

\* the history field touched, renumbered to 1..Len(c) in the same order
Renumber(c) ==
    [i \in 1..Len(c) |->
        [c[i] EXCEPT !.touched =
            Cardinality({j \in 1..Len(c) : c[j].touched <= c[i].touched})]]

\* The scan of set() for the oldest entry: the first entry, in insertion
\* order, whose timestamp is strictly smaller than all before it.
OldestIndex(c) ==
    CHOOSE i \in 1..Len(c) :
        /\ \A j \in 1..Len(c) : c[i].timestamp <= c[j].timestamp
        /\ \A j \in 1..(i - 1) : c[j].timestamp > c[i].timestamp

(***************************************************************************)
(* CompletionCache.get at time t: the cache afterwards and the result.     *)
(* found = FALSE is the result undefined.                                  *)
(***************************************************************************)
get(c, filepath, content, cursorIndex, t, ttlv) ==
    LET key == generateKey(filepath, content, cursorIndex)
    IN  IF ~MapHas(c, key)
        THEN [cache |-> c, found |-> FALSE, value |-> <<>>]
        ELSE LET entry == c[MapIndex(c, key)]
             IN  IF t - entry.timestamp > ttlv
                 THEN [cache |-> Renumber(MapDelete(c, key)),
                       found |-> FALSE, value |-> <<>>]
                 ELSE [cache |-> Renumber(MapSet(c, [entry EXCEPT
                                    !.timestamp = t, !.touched = Len(c) + 1])),
                       found |-> TRUE, value |-> entry.completion]

\* set() as it would be if a key already in the map kept its entry
setKeepsExisting(c, filepath, content, cursorIndex, completion, t, maxSz) ==
    LET key == generateKey(filepath, content, cursorIndex)
        evicted == IF Len(c) >= maxSz /\ Len(c) > 0
                   THEN MapDelete(c, c[OldestIndex(c)].key)
                   ELSE c
    IN  IF MapHas(evicted, key)
        THEN Renumber(evicted)
        ELSE Renumber(MapSet(evicted, [key |-> key, completion |-> completion,
                                       timestamp |-> t, createdAt |-> t,
                                       touched |-> Len(c) + 1]))

(***************************************************************************)
(* CompletionCache.set at time t.                                          *)
(***************************************************************************)
set(c, filepath, content, cursorIndex, completion, t, maxSz) ==
    LET key == generateKey(filepath, content, cursorIndex)
        evicted == IF Len(c) >= maxSz /\ Len(c) > 0
                   THEN MapDelete(c, c[OldestIndex(c)].key)
                   ELSE c
    IN  Renumber(MapSet(evicted, [key |-> key, completion |-> completion,
                                  timestamp |-> t, createdAt |-> t,
                                  touched |-> Len(c) + 1]))

\* CompletionCache.clear
clear(c) == <<>>

\* CompletionCache.size
size(c) == Len(c)

(***************************************************************************)
(* cleanMarkdownCodeBlocks: four regular-expression replacements, applied  *)
(* in order.  The characters of the class [\w-]:                           *)
(***************************************************************************)
TagChars ==
    {"a", "b", "c", "d", "e", "f", "g", "h", "i", "j", "k", "l", "m",
     "n", "o", "p", "q", "r", "s", "t", "u", "v", "w", "x", "y", "z",
     "A", "B", "C", "D", "E", "F", "G", "H", "I", "J", "K", "L", "M",
     "N", "O", "P", "Q", "R", "S", "T", "U", "V", "W", "X", "Y", "Z",
     "0", "1", "2", "3", "4", "5", "6", "7", "8", "9", "_", "-"}

\* The backtick character (a string of the model cannot hold it literally).
Backtick == "BACKTICK"

\* s holds ``` at positions i, i+1, i+2 (positions count from 1)
FenceAt(s, i) ==
    /\ i >= 1 /\ i + 2 <= Len(s)
    /\ s[i] = Backtick /\ s[i + 1] = Backtick /\ s[i + 2] = Backtick

\* The position of the newline that ends a match of ```[\w-]*\n starting at
\* i, or 0 when there is no match at i.  [\w-]* takes every tag character
\* that follows; none of them is a newline, so giving some back never helps.
OpenFenceEnd(s, i) ==
    IF ~FenceAt(s, i) THEN 0
    ELSE LET stops == {k \in (i + 3)..Len(s) : s[k] \notin TagChars}
         IN  IF stops = {} THEN 0
             ELSE LET k == CHOOSE x \in stops : \A y \in stops : x <= y
                  IN  IF s[k] = "\n" THEN k ELSE 0

\* The position of the newline that begins the first \n``` at or after
\* position from, or 0: where the lazy ([\s\S]*?) of a block stops.
CloseFenceStart(s, from) ==
    LET closes == {m \in from..Len(s) : s[m] = "\n" /\ FenceAt(s, m + 1)}
    IN  IF closes = {} THEN 0
        ELSE CHOOSE x \in closes : \A y \in closes : x <= y

\* text.replace(/```[\w-]*\n([\s\S]*?)\n```/g, "$1"), scanning from position i
RECURSIVE ReplaceBlocks(_, _)
ReplaceBlocks(s, i) ==
    IF i > Len(s) THEN <<>>
    ELSE LET k == OpenFenceEnd(s, i)
             m == IF k = 0 THEN 0 ELSE CloseFenceStart(s, k + 1)
         IN  IF k # 0 /\ m # 0
             THEN SubSeq(s, k + 1, m - 1) \o ReplaceBlocks(s, m + 4)
             ELSE <<s[i]>> \o ReplaceBlocks(s, i + 1)

\* text.replace(/^```[\w-]*\n/g, ""): ^ is the start of the text only
StripLeadingFence(s) ==
    LET k == OpenFenceEnd(s, 1)
    IN  IF k # 0 THEN SubSeq(s, k + 1, Len(s)) ELSE s

\* text.replace(/\n```[\w-]*\n/g, "\n"), scanning from position i
RECURSIVE ReplaceInnerFences(_, _)
ReplaceInnerFences(s, i) ==
    IF i > Len(s) THEN <<>>
    ELSE LET k == IF s[i] = "\n" THEN OpenFenceEnd(s, i + 1) ELSE 0
         IN  IF k # 0
             THEN <<"\n">> \o ReplaceInnerFences(s, k + 1)
             ELSE <<s[i]>> \o ReplaceInnerFences(s, i + 1)

\* text.replace(/\n```$/g, ""): $ is the end of the text only
StripTrailingFence(s) ==
    IF Len(s) >= 4 /\ s[Len(s) - 3] = "\n" /\ FenceAt(s, Len(s) - 2)
    THEN SubSeq(s, 1, Len(s) - 4)
    ELSE s

cleanMarkdownCodeBlocks(text) ==
    StripTrailingFence(ReplaceInnerFences(StripLeadingFence(ReplaceBlocks(text, 1)), 1))

\* the inputs of the specifications: file paths, document texts, cursor
\* offsets and completions
Filepaths == {"a.ts"}
Contents == {<<"a">>, <<"b", "a">>}
CursorIndexes == 0..1
Completions == {<<>>, <<"x">>}

\* A record of one cache operation.  afterSet tells that the operation before
\* it was a set of the same key, whose value, time, full and replaced it then
\* carries in setValue, setAt, setFull and setReplaced.  full: the cache held
\* maxSize entries or more before the operation; present: it held the key;
\* replaced: it held the key with another completion; kept: it holds the key
\* after the operation; createdAt: the time of the set that stored the entry;
\* sizeBefore: the entries it held before the operation; evicted: a set deleted
\* the oldest entry, whose touched was evictedTouched; tied: that entry had the
\* timestamp of another entry.
NoOp == [op |-> "none", key |-> <<>>, value |-> <<>>, found |-> FALSE, at |-> 0,
         full |-> FALSE, present |-> FALSE, createdAt |-> 0, kept |-> FALSE,
         replaced |-> FALSE, afterSet |-> FALSE, setValue |-> <<>>, setAt |-> 0,
         setFull |-> FALSE, setReplaced |-> FALSE, sizeBefore |-> 0,
         evicted |-> FALSE, evictedTouched |-> 0, tied |-> FALSE]

(***************************************************************************)
(* The provider.  Three sources of the class AutocompleteProvider exist:   *)
(*   "provider" - AutocompleteProvider.ts: previews show the accumulator   *)
(*                as received, the final text is the accumulator;          *)
(*   "manager"  - part_001, lines 1-348: ghost text goes through the       *)
(*                AutocompletePreviewManager, which normalizes; the cache  *)
(*                is looked up but its result is not used;                 *)
(*   "inline"   - part_001, lines 350-948: previews show the normalized    *)
(*                latest chunk, the final text is the normalized           *)
(*                accumulator.                                             *)
(* A request is one call of provideInlineCompletionItems; its number is    *)
(* also its timer and, once allocated, its completionId.                   *)
(***************************************************************************)
Variants == {"provider", "manager", "inline"}

Req == 1..MaxReq

\* context.selectedCompletionInfo of a trigger: absent, or present with
\* typedLength = range.end.character - range.start.character
SelectionInfos ==
    {[present |-> FALSE, typedLength |-> 0],
     [present |-> TRUE, typedLength |-> 2],
     [present |-> TRUE, typedLength |-> 4]}

\* the cursor positions of the triggers, as offsets into the document
Positions == {1}

\* what `editor && editor.document === document` finds when the provider reads
\* vscode.window.activeTextEditor: the user stays in the editor of the document
EditorMatches == {TRUE}

\* what a model stream can deliver
ChunkTexts == {<<"a">>, <<Backtick, Backtick, Backtick, "\n">>}
StreamEvents ==
    [type : {"text"}, text : ChunkTexts] \cup {[type |-> "reasoning", text |-> <<"r">>]}

(***************************************************************************)
(* A request before its trigger.                                           *)
(*   pc: "idle", "debounce" (timer pending), "dropped" (timer cleared),    *)
(*       "init" (awaiting initializeApiHandler), "context" (awaiting       *)
(*       gatherContext), "stream" (awaiting the next Stream Event), "done" *)
(*   outcome (when done): "nohandler", "cachehit", "cancelled", "guard",   *)
(*       "final", "error"                                                  *)
(*   resolved: the promise returned to the host: "none" (no promise),      *)
(*       "pending", "null" or "item"                                       *)
(*   emitted: the ghost-text updates and returned items of this request,   *)
(*       in order: [kind: "preview" | "final" | "item", text]              *)
(*   cacheWrites: the [key, completion] this request stored in the cache   *)
(*   lookupHit: history - the cache lookup of this request found an        *)
(*       unexpired entry                                                   *)
(*   docAtTrigger, lookupKey, staleAtLookup: history - the document text   *)
(*       at the trigger, the key of the cache lookup, and whether the text *)
(*       at the lookup differed from the text at the trigger               *)
(*   received: history - the Stream Events the loop body has processed     *)
(*   overtaken: history - a later trigger was accepted while the timer of  *)
(*       this request was pending                                          *)
(*   superseded, tokenCancelled: history - a later trigger was accepted,   *)
(*       or the token listener ran, after the timer of this request fired  *)
(*       and before the request ended                                      *)
(***************************************************************************)
IdleRequest ==
    [pc |-> "idle", outcome |-> "none", position |-> 0,
     selectedCompletionInfo |-> [present |-> FALSE, typedLength |-> 0],
     editorAtTrigger |-> TRUE, cursorIndex |-> 0, latestCompletion |-> <<>>,
     consumed |-> 0, resolved |-> "none", emitted |-> <<>>, cacheWrites |-> <<>>,
     lookupHit |-> FALSE, overtaken |-> FALSE, superseded |-> FALSE,
     tokenCancelled |-> FALSE, docAtTrigger |-> <<>>, lookupKey |-> <<>>,
     staleAtLookup |-> FALSE, received |-> <<>>, cancelledLate |-> FALSE]

\* the provider after construction and register(), as variant v on a document
\* of text d
ProviderIdle(v, d) ==
    /\ variant = v
    /\ enabled = TRUE
    /\ apiHandler = "null"
    /\ activeCompletionId = 0
    /\ debounceTimeout = 0
    /\ currentGhostText = <<>>
    /\ isShowingDecoration = FALSE
    /\ docText = d
    /\ requests = [r \in Req |-> IdleRequest]

\* document.uri.toString() of the document the triggers are for
DocUri == "a.ts"

\* TextDocument.offsetAt: the offset of a position, adjusted into the document
offsetAt(text, position) == Min(Max(position, 0), Len(text))

\* updateGhostText as it would be if it showed an empty text too
updateGhostTextShowsEmpty(text) == <<text, TRUE>>

\* updateGhostText(editor, text): the new <<currentGhostText, isShowingDecoration>>;
\* an empty text clears the decoration
updateGhostText(text) == <<text, text # <<>>>>

\* the text a text-typed Stream Event puts into the ghost text: the accumulator
\* as it is, the normalized accumulator (throttledUpdateGhostText), or the
\* normalized chunk
PreviewText(v, accumulator, chunkText) ==
    CASE v = "provider" -> accumulator
      [] v = "manager" -> cleanMarkdownCodeBlocks(accumulator)
      [] v = "inline" -> cleanMarkdownCodeBlocks(chunkText)

\* the text that is cached and shown when the stream has ended
FinalText(v, accumulator) ==
    IF v = "provider" THEN accumulator ELSE cleanMarkdownCodeBlocks(accumulator)

\* `if (cachedCompletion)`: the looked-up completion counts as a hit when it is
\* a non-empty string; only "provider" and "inline" act on it
UsesCachedCompletion(v, found, value) == v # "manager" /\ found /\ value # <<>>

\* the selection guard that follows the stream: TRUE when it suppresses
GuardSuppresses(info, startsWith) ==
    info.present /\ (info.typedLength < MinTypedLength \/ ~startsWith)

\* `editor && editor.document === document`: "manager" reads the editor once,
\* at the trigger; the others read vscode.window.activeTextEditor each time
EditorShowsDocument(r, editorMatches) ==
    IF variant = "manager" THEN requests[r].editorAtTrigger ELSE editorMatches

\* resolve(value) on the promise of a request: the first call settles it
Resolve(resolved, value) == IF resolved = "pending" THEN value ELSE resolved

\* the token listener of a request is registered once gatherContext returned
ListenerRegistered(r) ==
    \/ requests[r].pc = "stream"
    \/ requests[r].pc = "done" /\ requests[r].outcome \in {"cancelled", "guard", "final", "error"}

\* clearTimeout() as it would be if it left the timer running
clearTimeoutKeepsTimer(pc) == pc

\* clearTimeout(this.debounceTimeout), on the pc of the request whose timer it
\* is: a pending timer never fires, a timer that has fired is not affected
clearTimeout(pc) == IF pc = "debounce" THEN "dropped" ELSE pc

(***************************************************************************)
(* provideInlineCompletionItems up to setTimeout: an accepted trigger      *)
(* (autocomplete enabled, file not excluded).  It nulls the active id,     *)
(* clears the timer debounceTimeout refers to and starts its own.          *)
(***************************************************************************)
Trigger(r, position, info, editorMatches) ==
    /\ enabled
    /\ requests[r].pc = "idle"
    /\ \A q \in 1..(r - 1) : requests[q].pc # "idle"
    /\ activeCompletionId' = 0
    /\ debounceTimeout' = r
    /\ requests' = [q \in Req |->
          IF q = r
          THEN [IdleRequest EXCEPT
                  !.pc = "debounce", !.position = position,
                  !.selectedCompletionInfo = info,
                  !.editorAtTrigger = editorMatches,
                  !.docAtTrigger = docText,
                  !.resolved = IF variant = "manager" THEN "undefined" ELSE "pending"]
          ELSE IF q = debounceTimeout /\ requests[q].pc = "debounce"
          THEN [requests[q] EXCEPT !.pc = clearTimeout(@), !.overtaken = TRUE]
          ELSE IF requests[q].pc \in {"init", "context", "stream"}
          THEN [requests[q] EXCEPT !.superseded = TRUE]
          ELSE requests[q]]
    /\ UNCHANGED <<componentVars, cacheVars, variant, enabled, apiHandler, currentGhostText,
                   isShowingDecoration, docText>>

\* the timer callback as it would be if the fast path did not return after
\* resolve([completionItem])
AfterInitFallsThrough(r, handler) ==
    LET cursorIndex == offsetAt(docText, requests[r].position)
        look == get(cache, DocUri, docText, cursorIndex, now, ttl)
    IN  /\ apiHandler' = handler
        /\ IF handler = "null"
           THEN /\ requests' = [requests EXCEPT
                      ![r].pc = "done", ![r].outcome = "nohandler",
                      ![r].resolved = Resolve(@, "null")]
                /\ UNCHANGED <<cache, activeCompletionId>>
           ELSE /\ cache' = look.cache
                /\ IF UsesCachedCompletion(variant, look.found, look.value)
                   THEN /\ requests' = [requests EXCEPT
                              ![r].pc = "context",
                              ![r].cursorIndex = cursorIndex,
                              ![r].lookupKey = generateKey(DocUri, docText, cursorIndex),
                              ![r].staleAtLookup = (docText # requests[r].docAtTrigger),
                              ![r].lookupHit = TRUE,
                              ![r].emitted = Append(@, [kind |-> "item", text |-> look.value]),
                              ![r].resolved = Resolve(@, "item")]
                        /\ activeCompletionId' = r
                   ELSE /\ requests' = [requests EXCEPT
                              ![r].pc = "context",
                              ![r].cursorIndex = cursorIndex,
                              ![r].lookupKey = generateKey(DocUri, docText, cursorIndex),
                              ![r].staleAtLookup = (docText # requests[r].docAtTrigger),
                              ![r].lookupHit = look.found]
                        /\ activeCompletionId' = r
        /\ UNCHANGED <<componentVars, maxSize, ttl, now, lastOp, variant, enabled, debounceTimeout,
                       currentGhostText, isShowingDecoration, docText>>

(***************************************************************************)
(* The timer callback from the return of initializeApiHandler (handler is  *)
(* its result) to the await of gatherContext: the handler check, the cache *)
(* lookup and fast path, the id allocation and loadConfig, which does not  *)
(* wait for anything.                                                      *)
(***************************************************************************)
AfterInit(r, handler) ==
    LET cursorIndex == offsetAt(docText, requests[r].position)
        look == get(cache, DocUri, docText, cursorIndex, now, ttl)
    IN  /\ apiHandler' = handler
        /\ IF handler = "null"
           THEN /\ requests' = [requests EXCEPT
                      ![r].pc = "done", ![r].outcome = "nohandler",
                      ![r].resolved = Resolve(@, "null")]
                /\ UNCHANGED <<cache, activeCompletionId>>
           ELSE /\ cache' = look.cache
                /\ IF UsesCachedCompletion(variant, look.found, look.value)
                   THEN /\ requests' = [requests EXCEPT
                              ![r].pc = "done", ![r].outcome = "cachehit",
                              ![r].cursorIndex = cursorIndex,
                              ![r].lookupKey = generateKey(DocUri, docText, cursorIndex),
                              ![r].staleAtLookup = (docText # requests[r].docAtTrigger),
                              ![r].lookupHit = TRUE,
                              ![r].emitted = Append(@, [kind |-> "item", text |-> look.value]),
                              ![r].resolved = Resolve(@, "item")]
                        /\ UNCHANGED activeCompletionId
                   ELSE /\ requests' = [requests EXCEPT
                              ![r].pc = "context",
                              ![r].cursorIndex = cursorIndex,
                              ![r].lookupKey = generateKey(DocUri, docText, cursorIndex),
                              ![r].staleAtLookup = (docText # requests[r].docAtTrigger),
                              ![r].lookupHit = look.found]
                        /\ activeCompletionId' = r
        /\ UNCHANGED <<componentVars, maxSize, ttl, now, lastOp, variant, enabled, debounceTimeout,
                       currentGhostText, isShowingDecoration, docText>>

\* The debounce timer of a request fires.  initializeApiHandler returns an
\* existing handler without waiting; without one it goes to the network.
TimerFire(r) ==
    /\ requests[r].pc = "debounce"
    /\ IF apiHandler = "handler"
       THEN AfterInit(r, "handler")
       ELSE /\ requests' = [requests EXCEPT ![r].pc = "init"]
            /\ UNCHANGED <<componentVars, cacheVars, variant, enabled, apiHandler, activeCompletionId,
                           debounceTimeout, currentGhostText, isShowingDecoration, docText>>

\* initializeApiHandler returns a new handler, or null when it failed
InitDone(r, handler) ==
    /\ requests[r].pc = "init"
    /\ AfterInit(r, handler)

(***************************************************************************)
(* gatherContext returns: the prompt is rendered, the token listener is    *)
(* registered and apiHandler.createMessage is called, which throws when a  *)
(* configuration change has nulled apiHandler in the meantime.             *)
(***************************************************************************)
ContextDone(r) ==
    /\ requests[r].pc = "context"
    /\ requests' = IF apiHandler = "null"
                   THEN [requests EXCEPT
                           ![r].pc = "done", ![r].outcome = "error",
                           ![r].resolved = Resolve(@, "null")]
                   ELSE [requests EXCEPT ![r].pc = "stream", ![r].latestCompletion = <<>>]
    /\ UNCHANGED <<componentVars, cacheVars, variant, enabled, apiHandler, activeCompletionId,
                   debounceTimeout, currentGhostText, isShowingDecoration, docText>>

\* the loop body as it would be if it appended the text of every chunk
AccumulateEveryType(latestCompletion, chunk) == latestCompletion \o chunk.text

\* `if (chunk.type === "text") latestCompletion += chunk.text`
Accumulate(latestCompletion, chunk) ==
    IF chunk.type = "text" THEN latestCompletion \o chunk.text ELSE latestCompletion

(***************************************************************************)
(* One turn of `for await (const chunk of stream)`: checkCancellation,     *)
(* then for a text chunk the append and the ghost-text update.             *)
(***************************************************************************)
StreamChunk(r, chunk, editorMatches) ==
    /\ requests[r].pc = "stream"
    /\ requests[r].consumed < MaxChunks \/ activeCompletionId # r
    /\ IF activeCompletionId # r
       THEN /\ requests' = [requests EXCEPT
                  ![r].pc = "done", ![r].outcome = "cancelled",
                  ![r].consumed = @ + 1,
                  ![r].resolved = Resolve(@, "null")]
            /\ UNCHANGED <<currentGhostText, isShowingDecoration>>
       ELSE IF chunk.type = "text"
       THEN LET accumulator == Accumulate(requests[r].latestCompletion, chunk)
                shown == PreviewText(variant, accumulator, chunk.text)
            IN  IF EditorShowsDocument(r, editorMatches)
                THEN /\ requests' = [requests EXCEPT
                           ![r].latestCompletion = accumulator,
                           ![r].consumed = @ + 1,
                           ![r].received = Append(@, chunk),
                           ![r].emitted = Append(@, [kind |-> "preview", text |-> shown])]
                     /\ currentGhostText' = updateGhostText(shown)[1]
                     /\ isShowingDecoration' = updateGhostText(shown)[2]
                ELSE /\ requests' = [requests EXCEPT
                           ![r].latestCompletion = accumulator,
                           ![r].consumed = @ + 1,
                           ![r].received = Append(@, chunk)]
                     /\ UNCHANGED <<currentGhostText, isShowingDecoration>>
       ELSE /\ requests' = [requests EXCEPT
                  ![r].latestCompletion = Accumulate(@, chunk),
                  ![r].consumed = @ + 1,
                  ![r].received = Append(@, chunk)]
            /\ UNCHANGED <<currentGhostText, isShowingDecoration>>
    /\ UNCHANGED <<componentVars, cacheVars, variant, enabled, apiHandler, activeCompletionId,
                   debounceTimeout, docText>>

\* the end of the stream as it would be if the guard path never returned
StreamEndGuardWaits(r, startsWith, editorMatches) ==
    /\ requests[r].pc = "stream"
    /\ IF GuardSuppresses(requests[r].selectedCompletionInfo, startsWith)
       THEN UNCHANGED <<requests, cache, currentGhostText, isShowingDecoration>>
       ELSE LET final == FinalText(variant, requests[r].latestCompletion)
                key == generateKey(DocUri, docText, requests[r].cursorIndex)
                shows == EditorShowsDocument(r, editorMatches)
            IN  /\ cache' = set(cache, DocUri, docText, requests[r].cursorIndex,
                                final, now, maxSize)
                /\ requests' = [requests EXCEPT
                      ![r].pc = "done", ![r].outcome = "final",
                      ![r].cacheWrites = Append(@, [key |-> key, completion |-> final]),
                      ![r].emitted = IF shows
                                     THEN Append(@, [kind |-> "final", text |-> final])
                                     ELSE @,
                      ![r].resolved = Resolve(@, "null")]
                /\ currentGhostText' = IF shows THEN updateGhostText(final)[1]
                                       ELSE currentGhostText
                /\ isShowingDecoration' = IF shows THEN updateGhostText(final)[2]
                                          ELSE isShowingDecoration
    /\ UNCHANGED <<componentVars, maxSize, ttl, now, lastOp, variant, enabled, apiHandler,
                   activeCompletionId, debounceTimeout, docText>>

(***************************************************************************)
(* The stream ends and the loop is left without a further                  *)
(* checkCancellation: the selection guard, then the cache write, the final *)
(* ghost text and resolve(null).                                           *)
(***************************************************************************)
StreamEnd(r, startsWith, editorMatches) ==
    /\ requests[r].pc = "stream"
    /\ IF GuardSuppresses(requests[r].selectedCompletionInfo, startsWith)
       THEN /\ requests' = [requests EXCEPT ![r].pc = "done", ![r].outcome = "guard"]
            /\ UNCHANGED <<cache, currentGhostText, isShowingDecoration>>
       ELSE LET final == FinalText(variant, requests[r].latestCompletion)
                key == generateKey(DocUri, docText, requests[r].cursorIndex)
                shows == EditorShowsDocument(r, editorMatches)
            IN  /\ cache' = set(cache, DocUri, docText, requests[r].cursorIndex,
                                final, now, maxSize)
                /\ requests' = [requests EXCEPT
                      ![r].pc = "done", ![r].outcome = "final",
                      ![r].cacheWrites = Append(@, [key |-> key, completion |-> final]),
                      ![r].emitted = IF shows
                                     THEN Append(@, [kind |-> "final", text |-> final])
                                     ELSE @,
                      ![r].resolved = Resolve(@, "null")]
                /\ currentGhostText' = IF shows THEN updateGhostText(final)[1]
                                       ELSE currentGhostText
                /\ isShowingDecoration' = IF shows THEN updateGhostText(final)[2]
                                          ELSE isShowingDecoration
    /\ UNCHANGED <<componentVars, maxSize, ttl, now, lastOp, variant, enabled, apiHandler,
                   activeCompletionId, debounceTimeout, docText>>

\* a stream error as it would be if it were taken for the end of the stream
StreamErrorCommits(r) ==
    /\ requests[r].pc = "stream"
    /\ LET final == FinalText(variant, requests[r].latestCompletion)
           key == generateKey(DocUri, docText, requests[r].cursorIndex)
       IN  /\ cache' = set(cache, DocUri, docText, requests[r].cursorIndex,
                           final, now, maxSize)
           /\ requests' = [requests EXCEPT
                 ![r].pc = "done", ![r].outcome = "error",
                 ![r].cacheWrites = Append(@, [key |-> key, completion |-> final]),
                 ![r].emitted = Append(@, [kind |-> "final", text |-> final]),
                 ![r].resolved = Resolve(@, "null")]
    /\ UNCHANGED <<componentVars, maxSize, ttl, now, lastOp, variant, enabled, apiHandler,
                   activeCompletionId, debounceTimeout, currentGhostText,
                   isShowingDecoration, docText>>

\* reading the stream throws: the catch logs and calls resolve(null)
StreamError(r) ==
    /\ requests[r].pc = "stream"
    /\ requests' = [requests EXCEPT
          ![r].pc = "done", ![r].outcome = "error", ![r].resolved = Resolve(@, "null")]
    /\ UNCHANGED <<componentVars, cacheVars, variant, enabled, apiHandler, activeCompletionId,
                   debounceTimeout, currentGhostText, isShowingDecoration, docText>>

\* a listener that nulls the active id whichever request holds it
ActiveIdNulled(r) == 0

\* the listener body: if (this.activeCompletionId === completionId)
\* this.activeCompletionId = null
ActiveIdAfterCancel(r) == IF activeCompletionId = r THEN 0 ELSE activeCompletionId

(***************************************************************************)
(* token.onCancellationRequested: the listener aborts an AbortController   *)
(* nothing listens to and nulls the active id when it is this request's.   *)
(* A token cancelled before the listener was registered runs the listener  *)
(* right after registration, which is this same step.                      *)
(***************************************************************************)
\* History: cancelledLate becomes true when late is.
TokenListener(r, late) ==
    /\ ListenerRegistered(r)
    /\ activeCompletionId' = ActiveIdAfterCancel(r)
    /\ requests' = [requests EXCEPT
          ![r].tokenCancelled =
              @ \/ (activeCompletionId = r /\ requests[r].pc = "stream"),
          ![r].cancelledLate = @ \/ late]
    /\ UNCHANGED <<componentVars, cacheVars, variant, enabled, apiHandler, debounceTimeout,
                   currentGhostText, isShowingDecoration, docText>>

\* the token of request r fires
TokenCancel(r) == TokenListener(r, FALSE)

\* another request is active and streaming and has not emitted anything yet
OvertakenBeforeEmission(r) ==
    /\ activeCompletionId \notin {0, r}
    /\ requests[activeCompletionId].pc = "stream"
    /\ requests[activeCompletionId].emitted = <<>>

\* the token of request r fires, and the history keeps whether it fired late
TokenCancelLate(r) == TokenListener(r, OvertakenBeforeEmission(r))

\* onDidChangeConfiguration affecting kilo-code.autocomplete
ConfigChange ==
    /\ apiHandler = "handler"
    /\ apiHandler' = "null"
    /\ UNCHANGED <<componentVars, cacheVars, variant, enabled, activeCompletionId, debounceTimeout,
                   currentGhostText, isShowingDecoration, docText, requests>>

\* the command kilo-code.toggleAutocomplete
ToggleAutocomplete ==
    /\ enabled' = ~enabled
    /\ UNCHANGED <<componentVars, cacheVars, variant, apiHandler, activeCompletionId, debounceTimeout,
                   currentGhostText, isShowingDecoration, docText, requests>>

\* the document is edited; onDidChangeTextDocument clears a shown decoration
\* when the active editor shows the document
DocumentChange(text, editorMatches) ==
    /\ text # docText
    /\ docText' = text
    /\ isShowingDecoration' = IF editorMatches THEN FALSE ELSE isShowingDecoration
    /\ UNCHANGED <<componentVars, cacheVars, variant, enabled, apiHandler, activeCompletionId,
                   debounceTimeout, currentGhostText, requests>>

\* more than a whole ttl passes
Elapse ==
    /\ now < MaxElapse * (ttl + 1)
    /\ now' = now + ttl + 1
    /\ UNCHANGED <<componentVars, cache, maxSize, ttl, lastOp, providerVars>>

\* no function has been called yet
NoCall == [fn |-> "none", input |-> <<>>, output |-> <<>>]

\* the completion ids of the streamCompletion calls, one call per id
StreamerIds == 1..MaxCalls

\* a CompletionResult; error is "none" when the field is unset
NoResult == [completion |-> <<>>, isComplete |-> FALSE, error |-> "none"]

\* a streamCompletion call that has not been made.  aborted is its
\* abortController.signal.aborted; signal is the external signal ("none",
\* "open", "aborted": aborted before the call, "fired": aborted during it).
\* History: cancelled (the controller was aborted through cancelCompletion,
\* cancelAllCompletions or the external signal), partialsAfterCancel (calls
\* of onPartialCompletion after cancelled or after the signal had aborted),
\* endedBy, consumed.
IdleCall ==
    [pc |-> "idle", signal |-> "none", aborted |-> FALSE, fullCompletion |-> <<>>,
     partials |-> <<>>, result |-> NoResult, consumed |-> 0, endedBy |-> "none",
     cancelled |-> FALSE, partialsAfterCancel |-> 0]

\* a CompletionStreamer after construction, before streamCompletion is called
StreamerIdle == [activeRequests |-> {}, calls |-> [id \in StreamerIds |-> IdleCall]]

\* the components the provider does not hold, before their first use
ComponentsIdle ==
    /\ lastCall = NoCall
    /\ streamer = StreamerIdle

\* a provider is constructed with `new CompletionCache()`
Init ==
    /\ ComponentsIdle
    /\ cache = <<>>
    /\ maxSize = DefaultMaxSize
    /\ ttl = DefaultTtl
    /\ now = 0
    /\ lastOp = NoOp
    /\ \E v \in Variants : ProviderIdle(v, <<"a">>)

Next ==
    \/ \E r \in Req, p \in Positions, i \in SelectionInfos, e \in EditorMatches :
          Trigger(r, p, i, e)
    \/ \E r \in Req : TimerFire(r)
    \/ \E r \in Req, h \in {"handler", "null"} : InitDone(r, h)
    \/ \E r \in Req : ContextDone(r)
    \/ \E r \in Req, c \in StreamEvents, e \in EditorMatches : StreamChunk(r, c, e)
    \/ \E r \in Req, w \in BOOLEAN, e \in EditorMatches : StreamEnd(r, w, e)
    \/ \E r \in Req : StreamError(r)
    \/ \E r \in Req : TokenCancel(r)
    \/ ConfigChange

\* The request lifecycle: triggers, timers, streams, token cancellations and
\* configuration changes, on an unchanging document within one ttl.
Spec == Init /\ [][Next]_vars

\* the texts the document takes while it is edited
DocTexts == {<<"a">>, <<"a", "b">>, <<"b", "a">>}

\* a trigger without a suggestion-list selection
NoSelection == [present |-> FALSE, typedLength |-> 0]

\* the one Stream Event the streams deliver while the document is edited
TextEvent == [type |-> "text", text |-> <<"a">>]

NextDoc ==
    \/ \E r \in Req, p \in Positions, e \in EditorMatches :
          Trigger(r, p, NoSelection, e)
    \/ \E r \in Req : TimerFire(r)
    \/ \E r \in Req, h \in {"handler", "null"} : InitDone(r, h)
    \/ \E r \in Req : ContextDone(r)
    \/ \E r \in Req, e \in EditorMatches : StreamChunk(r, TextEvent, e)
    \/ \E r \in Req, e \in EditorMatches : StreamEnd(r, TRUE, e)
    \/ \E d \in DocTexts, e \in EditorMatches : DocumentChange(d, e)

\* The request lifecycle while the document is edited, for triggers without a
\* suggestion-list selection and streams of one kind of text chunk, without
\* token cancellations, stream errors and configuration changes.
SpecDoc == Init /\ [][NextDoc]_vars

\* the command kilo-code.acceptGhostText would insert currentGhostText
acceptGhostTextInserts == isShowingDecoration /\ currentGhostText # <<>>

\* the timer callback of a request has started
Created(r) == requests[r].pc \notin {"idle", "debounce", "dropped"}

\* the timer callback of a request has started and has not returned
NonTerminal(r) == requests[r].pc \in {"init", "context", "stream"}

\* the request has put a final result out: a returned item or a final ghost text
DeliveredFinal(r) ==
    \E i \in 1..Len(requests[r].emitted) : requests[r].emitted[i].kind \in {"final", "item"}

\* the request has put a preview out
DeliveredPreview(r) ==
    \E i \in 1..Len(requests[r].emitted) : requests[r].emitted[i].kind = "preview"

\* the model stream of request r delivers its next event: a chunk, or its end
StreamStep(r) ==
    \/ \E e \in EditorMatches : StreamChunk(r, TextEvent, e)
    \/ \E w \in BOOLEAN, e \in EditorMatches : StreamEnd(r, w, e)

NextLive ==
    \/ \E r \in Req, p \in Positions, i \in SelectionInfos, e \in EditorMatches :
          Trigger(r, p, i, e)
    \/ \E r \in Req : TimerFire(r)
    \/ \E r \in Req, h \in {"handler", "null"} : InitDone(r, h)
    \/ \E r \in Req : ContextDone(r)
    \/ \E r \in Req, e \in EditorMatches : StreamChunk(r, TextEvent, e)
    \/ \E r \in Req, w \in BOOLEAN, e \in EditorMatches : StreamEnd(r, w, e)
    \/ \E r \in Req : StreamError(r)
    \/ \E r \in Req : TokenCancelLate(r)

\* The request lifecycle with streams of one kind of text chunk, where the
\* model stream of every request is finite and each of its events, the end of
\* the stream included, is eventually delivered unless the stream fails.
SpecLive ==
    /\ Init
    /\ [][NextLive]_vars
    /\ \A r \in Req : WF_vars(StreamStep(r))

(***************************************************************************)
(* C1 - at most one live writer: once the timer of a newer request has     *)
(* fired, an older request emits no preview and no final result any more.  *)
(***************************************************************************)
C1_OlderSilentOnceNewerCreated ==
    [][\A r1, r2 \in Req :
          (r1 < r2 /\ Created(r2)) => requests'[r1].emitted = requests[r1].emitted]_vars

(***************************************************************************)
(* C2 - a request cancelled before its final commit, by a newer trigger or *)
(* by its cancellation token, never writes to the cache.                   *)
(***************************************************************************)
C2_CancelledNeverCaches ==
    \A r \in Req :
        (requests[r].superseded \/ requests[r].tokenCancelled)
            => requests[r].cacheWrites = <<>>

(***************************************************************************)
(* C3 - a request that was not terminal when a later trigger was accepted  *)
(* never becomes the active request afterwards and emits nothing more.     *)
(***************************************************************************)
C3_SupersededStaysCancelled ==
    [][\A r \in Req :
          requests[r].superseded
              => /\ activeCompletionId' # r
                 /\ requests'[r].emitted = requests[r].emitted]_vars

(***************************************************************************)
(* C4 - debounce coalescing: a trigger that is followed by another trigger *)
(* while its timer is pending never runs its callback (no cache lookup, no *)
(* id, no stream), and no two timers are pending at once: of a burst only  *)
(* the last trigger can run.                                               *)
(***************************************************************************)
C4_DebounceCoalescing ==
    /\ \A r \in Req :
          requests[r].overtaken
              => /\ ~Created(r)
                 /\ activeCompletionId # r
                 /\ requests[r].consumed = 0
                 /\ requests[r].emitted = <<>>
                 /\ requests[r].cacheWrites = <<>>
    /\ \A r, q \in Req :
          (requests[r].pc = "debounce" /\ requests[q].pc = "debounce") => r = q

\* a burst of MaxReq triggers, of which the last has run as far as its stream
C4_Witness ==
    /\ \A r \in 1..(MaxReq - 1) : requests[r].overtaken /\ requests[r].pc = "dropped"
    /\ requests[MaxReq].pc = "stream"
    /\ requests[MaxReq].consumed > 0

(***************************************************************************)
(* C5 - at most one request is non-terminal: no two requests have a timer  *)
(* callback running or a model stream open at the same time.               *)
(***************************************************************************)
C5_OneNonTerminal ==
    \A r, q \in Req : (NonTerminal(r) /\ NonTerminal(q)) => r = q

(***************************************************************************)
(* C6 - cache hit fast path: a request whose lookup finds an unexpired     *)
(* entry, whatever completion it holds, delivers it as its final result    *)
(* and opens no stream.                                                    *)
(***************************************************************************)
C6_HitIsDelivered ==
    \A r \in Req :
        requests[r].lookupHit
            => /\ requests[r].pc = "done" /\ requests[r].outcome = "cachehit"
               /\ requests[r].consumed = 0
               /\ Len(requests[r].emitted) = 1 /\ requests[r].emitted[1].kind = "item"

(***************************************************************************)
(* C7 - short-selection guard: a trigger whose selection has a typed       *)
(* length below 4 never delivers a final result, from the cache or from    *)
(* the stream.                                                             *)
(***************************************************************************)
C7_ShortSelectionNoFinal ==
    \A r \in Req :
        (/\ requests[r].selectedCompletionInfo.present
         /\ requests[r].selectedCompletionInfo.typedLength < MinTypedLength)
            => ~DeliveredFinal(r)

(***************************************************************************)
(* C8 - the guard suppresses entirely: a request whose selection fails the *)
(* guard (typed length below 4, or no prefix match) emits no preview and   *)
(* writes nothing to the cache.                                            *)
(***************************************************************************)
C8_GuardSuppressesEntirely ==
    \A r \in Req :
        (\/ requests[r].outcome = "guard"
         \/ /\ requests[r].selectedCompletionInfo.present
            /\ requests[r].selectedCompletionInfo.typedLength < MinTypedLength)
            => /\ ~DeliveredPreview(r)
               /\ requests[r].cacheWrites = <<>>

(***************************************************************************)
(* C13 - final commit: when the stream of a request ends without a         *)
(* cancellation and the guard passes, the text written to the cache and    *)
(* the text emitted as the final result are both the normalizer applied to *)
(* the whole accumulator of the request.                                   *)
(***************************************************************************)
C13_FinalIsNormalizedAccumulator ==
    \A r \in Req :
        (/\ requests[r].outcome = "final"
         /\ ~requests[r].superseded /\ ~requests[r].tokenCancelled)
            => LET normalized == cleanMarkdownCodeBlocks(requests[r].latestCompletion)
               IN  /\ Len(requests[r].cacheWrites) = 1
                   /\ requests[r].cacheWrites[1].completion = normalized
                   /\ \E i \in 1..Len(requests[r].emitted) :
                         requests[r].emitted[i].kind = "final"
                   /\ \A i \in 1..Len(requests[r].emitted) :
                         requests[r].emitted[i].kind = "final"
                             => requests[r].emitted[i].text = normalized

(***************************************************************************)
(* C14 - the key under which a completed request stores its result is the  *)
(* key of its own cache lookup, also when the document text changes while  *)
(* the request is streaming.                                               *)
(***************************************************************************)
C14_StoresUnderLookupKey ==
    \A r \in Req :
        \A i \in 1..Len(requests[r].cacheWrites) :
            requests[r].cacheWrites[i].key = requests[r].lookupKey

(***************************************************************************)
(* C15 - no stale cache hit: a request whose document text at the cache    *)
(* lookup differs from the text at its trigger does not serve a cached     *)
(* completion.                                                             *)
(***************************************************************************)
C15_NoStaleCacheHit ==
    \A r \in Req :
        requests[r].staleAtLookup => requests[r].outcome # "cachehit"

\* the step appends a preview to what request r has emitted
EmitsPreview(r) ==
    /\ Len(requests'[r].emitted) = Len(requests[r].emitted) + 1
    /\ requests'[r].emitted[Len(requests'[r].emitted)].kind = "preview"

\* IsPrefix(s, t): s is a prefix of t
IsPrefix(s, t) == Len(s) <= Len(t) /\ SubSeq(t, 1, Len(s)) = s

(***************************************************************************)
(* C16 - the preview emitted for a text-typed Stream Event is the          *)
(* normalizer applied to the whole accumulator up to and including that    *)
(* event.                                                                  *)
(***************************************************************************)
C16_PreviewIsNormalizedAccumulator ==
    [][\A r \in Req :
          EmitsPreview(r)
              => requests'[r].emitted[Len(requests'[r].emitted)].text
                   = cleanMarkdownCodeBlocks(requests'[r].latestCompletion)]_vars

(***************************************************************************)
(* C17 - within one request every preview is a prefix of every later       *)
(* preview and of the final text of the request.                           *)
(***************************************************************************)
C17_PreviewsAreMonotone ==
    \A r \in Req :
        \A i, j \in 1..Len(requests[r].emitted) :
            (i < j /\ requests[r].emitted[i].kind = "preview")
                => IsPrefix(requests[r].emitted[i].text, requests[r].emitted[j].text)

\* the text of the text-typed events of a sequence of Stream Events, in order
RECURSIVE TextOf(_)
TextOf(events) ==
    IF events = <<>>
    THEN <<>>
    ELSE LET rest == TextOf(SubSeq(events, 1, Len(events) - 1))
             last == events[Len(events)]
         IN  IF last.type = "text" THEN rest \o last.text ELSE rest

\* the text of a reasoning-typed Stream Event occurs in text
HasReasoningText(text) == \E i \in 1..Len(text) : text[i] = "r"

C19_ErrorIsContained ==
    \A r \in Req :
        requests[r].outcome = "error"
            => /\ requests[r].pc = "done"
               /\ ~DeliveredFinal(r)
               /\ requests[r].cacheWrites = <<>>
               /\ requests[r].resolved \in {"null", "undefined"}

\* a request whose stream failed after it had shown a preview
C19_Witness ==
    \E r \in Req :
        /\ requests[r].outcome = "error"
        /\ requests[r].consumed > 0
        /\ DeliveredPreview(r)

\* the step in which request r fails with a transport or configuration error
Fails(r) ==
    /\ requests[r].outcome \notin {"error", "nohandler"}
    /\ requests'[r].outcome \in {"error", "nohandler"}

(***************************************************************************)
(* C20 - after a request has failed with a transport or configuration      *)
(* error no suggestion of that request is shown: when the ghost text is    *)
(* text the request produced, the decoration is not visible and the accept *)
(* command does not insert it.                                             *)
(***************************************************************************)
C20_NoSuggestionAfterFailure ==
    [][\A r \in Req :
          (/\ Fails(r)
           /\ requests[r].emitted # <<>>
           /\ currentGhostText' = requests[r].emitted[Len(requests[r].emitted)].text)
              => /\ ~isShowingDecoration'
                 /\ ~acceptGhostTextInserts']_vars

\* the step cancels request r while its stream is open: a trigger or the
\* token listener takes the active id from it
CancelledWhileStreaming(r) ==
    /\ requests[r].pc = "stream"
    /\ activeCompletionId = r
    /\ activeCompletionId' # r

(***************************************************************************)
(* C21 - a request cancelled while its model stream is open has the stream *)
(* aborted and released at cancellation time: it does not stay open until  *)
(* a further Stream Event lets it observe the cancellation.                *)
(***************************************************************************)
C21_StreamAbortedAtCancellation ==
    [][\A r \in Req :
          CancelledWhileStreaming(r) => requests'[r].pc # "stream"]_vars

\* the final results request r has delivered: returned items and final ghost texts
FinalResults(r) ==
    {i \in 1..Len(requests[r].emitted) : requests[r].emitted[i].kind \in {"final", "item"}}

(***************************************************************************)
(* C22 - the final result is delivered at most once per request: a request *)
(* produces at most one of a returned cached inline completion item and a  *)
(* final ghost-text update.                                                *)
(***************************************************************************)
C22_FinalAtMostOnce ==
    \A r \in Req : Cardinality(FinalResults(r)) <= 1

\* one request has delivered a final ghost text after a preview, and a
\* later one has returned the cached item
C22_Witness ==
    \E r, q \in Req :
        /\ r < q
        /\ requests[r].outcome = "final" /\ DeliveredPreview(r)
        /\ Cardinality(FinalResults(r)) = 1
        /\ requests[q].outcome = "cachehit"
        /\ Cardinality(FinalResults(q)) = 1

\* the timer callback of request r has returned after it had opened the
\* model stream: final result committed, failed, suppressed by the guard, or
\* cancelled by a trigger or a token
StreamTerminal(r) ==
    /\ requests[r].pc = "done"
    /\ requests[r].outcome \in {"final", "error", "guard", "cancelled"}
    /\ requests[r].outcome = "cancelled"
          => (requests[r].superseded \/ requests[r].tokenCancelled
                \/ activeCompletionId # r)

(***************************************************************************)
(* C29 - liveness: a request whose model stream is open, when the stream   *)
(* is finite and each of its events is eventually delivered, eventually    *)
(* reaches a terminal outcome: final result committed, failed or           *)
(* suppressed by the guard (or cancelled, when a trigger or a cancellation *)
(* came in between).                                                       *)
(***************************************************************************)
C29_StreamingRequestTerminates ==
    \A r \in Req : (requests[r].pc = "stream") ~> StreamTerminal(r)

\* a request that was never cancelled read its whole stream and committed
\* its final result, another was suppressed by the guard
C29_Witness ==
    \E r, q \in Req :
        /\ requests[r].pc = "done" /\ requests[r].outcome = "final"
        /\ requests[r].consumed = MaxChunks
        /\ ~requests[r].superseded /\ ~requests[r].tokenCancelled
        /\ requests[q].pc = "done" /\ requests[q].outcome = "guard"

(***************************************************************************)
(* C30 - the cancellation token of an older request never cancels a newer  *)
(* one: when the token of a request fires while another request is the     *)
(* active one, the active id stays that request's and that request is left *)
(* as it is, so it goes on emitting.                                       *)
(***************************************************************************)
C30_OlderTokenSparesNewer ==
    [][\A r \in Req :
          (TokenCancelLate(r) /\ activeCompletionId \notin {0, r})
              => /\ activeCompletionId' = activeCompletionId
                 /\ requests'[activeCompletionId] = requests[activeCompletionId]]_vars

\* the token of r fired before the newer, active q had emitted anything, and
\* q then delivered a preview and its final result
C30_Witness ==
    \E r, q \in Req :
        /\ r < q
        /\ requests[r].cancelledLate
        /\ DeliveredPreview(q) /\ DeliveredFinal(q)
        /\ activeCompletionId = q

\* The request lifecycle of SpecLive where in addition every timer that is
\* pending fires, and initializeApiHandler and gatherContext return.
SpecSettle ==
    /\ Init
    /\ [][NextLive]_vars
    /\ \A r \in Req :
          /\ WF_vars(TimerFire(r))
          /\ WF_vars(\E h \in {"handler", "null"} : InitDone(r, h))
          /\ WF_vars(ContextDone(r))
          /\ WF_vars(StreamStep(r))

(***************************************************************************)
(* C31 - every promise returned by provideInlineCompletionItems eventually *)
(* settles: for every accepted trigger, also one superseded during its     *)
(* debounce wait and one suppressed by the typed-length guard, resolve is  *)
(* eventually called.                                                      *)
(***************************************************************************)
C31_PromiseSettles ==
    \A r \in Req :
        (requests[r].resolved = "pending") ~> (requests[r].resolved # "pending")

NextToggle ==
    \/ \E r \in Req, p \in Positions, e \in EditorMatches :
          Trigger(r, p, NoSelection, e)
    \/ \E r \in Req : TimerFire(r)
    \/ \E r \in Req, h \in {"handler", "null"} : InitDone(r, h)
    \/ \E r \in Req : ContextDone(r)
    \/ \E r \in Req, e \in EditorMatches : StreamChunk(r, TextEvent, e)
    \/ \E r \in Req, e \in EditorMatches : StreamEnd(r, TRUE, e)
    \/ ToggleAutocomplete

\* The request lifecycle with the toggle command, for triggers without a
\* suggestion-list selection and streams of one kind of text chunk.
SpecToggle == Init /\ [][NextToggle]_vars

(***************************************************************************)
(* C32 - while autocomplete is switched off no preview update, no final    *)
(* result and no cache write happens, also for a request that was          *)
(* debouncing or streaming when it was switched off.                       *)
(***************************************************************************)
C32_OffMeansSilent ==
    [][(~enabled /\ ~enabled')
          => \A r \in Req :
                /\ requests'[r].emitted = requests[r].emitted
                /\ requests'[r].cacheWrites = requests[r].cacheWrites]_vars

(***************************************************************************)
(* The ghost-text specification: the operations and event handlers that    *)
(* read or write currentGhostText and isShowingDecoration, in any order.   *)
(***************************************************************************)

\* the texts given to updateGhostText and throttledUpdateGhostText
GhostTexts ==
    {<<>>, <<"a">>, <<"a", "b">>, <<Backtick, Backtick, Backtick, "\n">>,
     <<Backtick, Backtick, Backtick, "\n", "a">>}

\* no accepted insertion is waiting for its edit
NoAccept == [fn |-> "none", input |-> <<>>, output |-> <<>>, pending |-> FALSE]

GhostInit ==
    /\ lastCall = NoAccept
    /\ streamer = StreamerIdle
    /\ cache = <<>>
    /\ maxSize = DefaultMaxSize
    /\ ttl = DefaultTtl
    /\ now = 0
    /\ lastOp = NoOp
    /\ \E v \in Variants : ProviderIdle(v, <<"a">>)

\* a call updateGhostText(editor, text)
GhostUpdate(text) ==
    /\ currentGhostText' = updateGhostText(text)[1]
    /\ isShowingDecoration' = updateGhostText(text)[2]
    /\ UNCHANGED <<componentVars, cacheVars, variant, enabled, apiHandler, activeCompletionId,
                   debounceTimeout, docText, requests>>

\* a call throttledUpdateGhostText(editor, textRaw)
GhostThrottledUpdate(textRaw) ==
    /\ variant # "provider"
    /\ GhostUpdate(cleanMarkdownCodeBlocks(textRaw))

\* a call clearGhostText(editor)
GhostClear ==
    /\ isShowingDecoration' = FALSE
    /\ UNCHANGED <<componentVars, cacheVars, variant, enabled, apiHandler, activeCompletionId,
                   debounceTimeout, currentGhostText, docText, requests>>

\* the command kilo-code.acceptGhostText: the edit is requested
GhostAccept(editor) ==
    /\ ~lastCall.pending
    /\ Len(docText) < MaxDoc
    /\ lastCall' = IF editor /\ acceptGhostTextInserts
                   THEN [fn |-> "acceptGhostText", input |-> currentGhostText,
                         output |-> <<>>, pending |-> TRUE]
                   ELSE lastCall
    /\ UNCHANGED <<streamer, cacheVars, providerVars>>

\* the edit of an accepted ghost text is applied: the text is inserted at the
\* cursor, the document-change listener runs, then clearGhostText
GhostAccepted ==
    /\ lastCall.pending
    /\ lastCall' = [lastCall EXCEPT !.pending = FALSE, !.output = docText \o lastCall.input]
    /\ docText' = docText \o lastCall.input
    /\ isShowingDecoration' = FALSE
    /\ UNCHANGED <<streamer, cacheVars, variant, enabled, apiHandler, activeCompletionId,
                   debounceTimeout, currentGhostText, requests>>

\* the command kilo-code.dismissGhostText
GhostDismiss(editor) ==
    /\ isShowingDecoration' = IF editor /\ isShowingDecoration THEN FALSE
                              ELSE isShowingDecoration
    /\ UNCHANGED <<componentVars, cacheVars, variant, enabled, apiHandler, activeCompletionId,
                   debounceTimeout, currentGhostText, docText, requests>>

\* onDidChangeTextEditorSelection: a shown ghost text is drawn at the new cursor
SelectionChange(editor) ==
    /\ IF isShowingDecoration /\ editor /\ currentGhostText # <<>>
       THEN /\ currentGhostText' = updateGhostText(currentGhostText)[1]
            /\ isShowingDecoration' = updateGhostText(currentGhostText)[2]
       ELSE UNCHANGED <<currentGhostText, isShowingDecoration>>
    /\ UNCHANGED <<componentVars, cacheVars, variant, enabled, apiHandler, activeCompletionId,
                   debounceTimeout, docText, requests>>

GhostNext ==
    \/ \E text \in GhostTexts : GhostUpdate(text)
    \/ \E textRaw \in GhostTexts : GhostThrottledUpdate(textRaw)
    \/ GhostClear
    \/ \E editor \in BOOLEAN : GhostAccept(editor)
    \/ GhostAccepted
    \/ \E editor \in BOOLEAN : GhostDismiss(editor)
    \/ \E editor \in BOOLEAN : SelectionChange(editor)
    \/ \E d \in DocTexts, e \in BOOLEAN : DocumentChange(d, e)

SpecGhost == GhostInit /\ [][GhostNext]_vars

(***************************************************************************)
(* C33 - ghost-text state invariant: when isShowingDecoration is true,     *)
(* currentGhostText is non-empty, after any sequence of updateGhostText,   *)
(* throttledUpdateGhostText, clearGhostText, accept, dismiss,              *)
(* selection-change and document-change events.                            *)
(***************************************************************************)
C33_ShownGhostTextIsNonEmpty ==
    isShowingDecoration => currentGhostText # <<>>

\* a ghost text is shown again after an earlier one was accepted and inserted
C33_Witness ==
    /\ isShowingDecoration
    /\ currentGhostText # <<>>
    /\ lastCall.fn = "acceptGhostText"
    /\ ~lastCall.pending
    /\ lastCall.output = docText

\* the step in which request r reaches apiHandler.createMessage
OpensStream(r) ==
    /\ requests[r].pc = "context"
    /\ requests'[r].pc # "context"

(***************************************************************************)
(* C38 - whenever a request reaches the step that opens the model stream,  *)
(* the shared apiHandler field is non-null, also when a configuration      *)
(* change arrived while the request awaited configuration loading or       *)
(* context gathering.                                                      *)
(***************************************************************************)
C38_HandlerPresentAtOpen ==
    [][\A r \in Req : OpensStream(r) => apiHandler = "handler"]_vars

(***************************************************************************)
(* The normalizer specification: cleanMarkdownCodeBlocks is applied to an  *)
(* accumulator that grows character by character into a fenced block, as   *)
(* throttledUpdateGhostText applies it to the growing completion.          *)
(***************************************************************************)

\* the fence marker
Fence == <<Backtick, Backtick, Backtick>>

\* language tags: none, ts, c++
CleanTags == {<<>>, <<"t", "s">>, <<"c", "+", "+">>}

\* the characters of the text between the fences
CleanChars == {"f", "\n", Backtick}

\* the texts between the fences: they hold no fence marker
CleanInteriors ==
    {x \in UNION {[1..n -> CleanChars] : n \in 0..MaxInterior} :
        \A i \in 1..Len(x) : ~FenceAt(x, i)}

\* the texts before the opening fence
CleanLeads == {<<>>, <<"f">>}

\* lead, opening fence, tag, newline, interior, newline, closing fence
FencedBlock(lead, tag, interior) ==
    lead \o Fence \o tag \o <<"\n">> \o interior \o <<"\n">> \o Fence

CleanTexts ==
    {FencedBlock(p, l, x) : p \in CleanLeads, l \in CleanTags, x \in CleanInteriors}

\* s holds a fence marker only in part: it has a backtick, and every run of
\* three backticks in it has no newline after it and is not the end of s
\* right after a newline
Incomplete(s) ==
    /\ \E i \in 1..Len(s) : s[i] = Backtick
    /\ \A i \in 1..Len(s) :
          FenceAt(s, i)
              => /\ \A k \in (i + 3)..Len(s) : s[k] # "\n"
                 /\ ~(i + 2 = Len(s) /\ i > 1 /\ s[i - 1] = "\n")

CleanInit ==
    /\ lastCall = [fn |-> "cleanMarkdownCodeBlocks", input |-> <<>>,
                   output |-> cleanMarkdownCodeBlocks(<<>>), incompleteBefore |-> FALSE]
    /\ streamer = StreamerIdle
    /\ cache = <<>>
    /\ maxSize = DefaultMaxSize
    /\ ttl = DefaultTtl
    /\ now = 0
    /\ lastOp = NoOp
    /\ ProviderIdle("manager", <<"a">>)

\* the accumulator receives the character ch and is normalized
CleanCall(ch) ==
    LET text == lastCall.input \o <<ch>>
    IN  /\ \E t \in CleanTexts : IsPrefix(text, t)
        /\ lastCall' = [fn |-> "cleanMarkdownCodeBlocks", input |-> text,
                        output |-> cleanMarkdownCodeBlocks(text),
                        incompleteBefore |->
                            \/ lastCall.incompleteBefore
                            \/ Incomplete(lastCall.input)]
        /\ UNCHANGED <<streamer, cacheVars, providerVars>>

CleanNext == \E ch \in CleanChars \cup {"t", "s", "c", "+"} : CleanCall(ch)

SpecClean == CleanInit /\ [][CleanNext]_vars

(***************************************************************************)
(* C23 - normalizer on complete fences: for an interior X without a fence  *)
(* marker and an optional language tag L, the normalizer applied to        *)
(* opening fence, L, newline, X, newline, closing fence returns X.         *)
(***************************************************************************)
C23_CompleteFenceGivesInterior ==
    \A l \in CleanTags, x \in CleanInteriors :
        lastCall.input = FencedBlock(<<>>, l, x) => lastCall.output = x

(***************************************************************************)
(* C24 - normalizer partial-fence safety: a text that holds only an        *)
(* incomplete fence marker is returned unchanged, and when the text has    *)
(* grown into one whose fence is complete the result is the text without   *)
(* the fence lines.                                                        *)
(***************************************************************************)
C24_PartialFenceSafety ==
    /\ Incomplete(lastCall.input) => lastCall.output = lastCall.input
    /\ \A p \in CleanLeads, l \in CleanTags, x \in CleanInteriors :
          (lastCall.incompleteBefore /\ lastCall.input = FencedBlock(p, l, x))
              => lastCall.output = p \o x

(***************************************************************************)
(* The normalizer on arbitrary texts: the text grows by any character and  *)
(* is normalized, and the result is normalized once more, as a completion  *)
(* that was cached normalized is normalized again when it is shown.        *)
(***************************************************************************)
NormalizeCall(ch) ==
    LET text == lastCall.input \o <<ch>>
    IN  /\ Len(lastCall.input) < MaxText
        /\ lastCall' = [fn |-> "cleanMarkdownCodeBlocks", input |-> text,
                        output |-> cleanMarkdownCodeBlocks(text),
                        incompleteBefore |-> FALSE,
                        again |-> cleanMarkdownCodeBlocks(cleanMarkdownCodeBlocks(text))]
        /\ UNCHANGED <<streamer, cacheVars, providerVars>>

NormalizeInit ==
    /\ lastCall = [fn |-> "cleanMarkdownCodeBlocks", input |-> <<>>,
                   output |-> cleanMarkdownCodeBlocks(<<>>),
                   incompleteBefore |-> FALSE,
                   again |-> cleanMarkdownCodeBlocks(cleanMarkdownCodeBlocks(<<>>))]
    /\ streamer = StreamerIdle
    /\ cache = <<>>
    /\ maxSize = DefaultMaxSize
    /\ ttl = DefaultTtl
    /\ now = 0
    /\ lastOp = NoOp
    /\ ProviderIdle("manager", <<"a">>)

NormalizeNext == \E ch \in CleanChars : NormalizeCall(ch)

SpecNormalize == NormalizeInit /\ [][NormalizeNext]_vars

(***************************************************************************)
(* C35 - the normalizer is idempotent: normalizing a normalized text does  *)
(* not change it.                                                          *)
(***************************************************************************)
C35_NormalizerIdempotent == lastCall.again = lastCall.output

(***************************************************************************)
(* The prompt specification: PromptRenderer.renderPrompt called directly,  *)
(* and called by the provider with the options it reads from loadConfig.   *)
(* A prompt is the sequence of its lines; JavaScript values that may be a  *)
(* boolean, a string or undefined are records of their type and value.     *)
(***************************************************************************)

JsString(str) == [type |-> "string", value |-> str]
JsBool(b) == [type |-> "boolean", value |-> IF b THEN "true" ELSE "false"]
JsUndefined == [type |-> "undefined", value |-> ""]

\* JavaScript truthiness and a || b
Truthy(v) == v \notin {JsUndefined, JsBool(FALSE), JsString("")}
JsOr(a, b) == IF Truthy(a) THEN a ELSE b

\* the three trailing instructions
MultilineInstruction ==
    "Complete the current line and continue with additional lines if appropriate."
AutoInstruction ==
    "Complete the current line. If the line appears to be the start of a block, you may continue with the implementation of that block."
OneLineInstruction ==
    "Complete only the current line"

\* the lines of the definitions section after its heading
RECURSIVE DefinitionLines(_)
DefinitionLines(defs) ==
    IF defs = <<>> THEN <<>>
    ELSE <<"// From " \o Head(defs).filepath, Head(defs).content, "">>
            \o DefinitionLines(Tail(defs))

\* a faulty assembly that writes the following lines before the current line
AssembleFollowingFirst(header, imports, definitions, preceding, current, following, instruction) ==
    header \o imports \o definitions \o preceding \o following \o current \o instruction

\* prompt += ..., in the order of the statements
AssemblePrompt(header, imports, definitions, preceding, current, following, instruction) ==
    header \o imports \o definitions \o preceding \o current \o following \o instruction

renderPrompt(context, options) ==
    LET language == options.language
        multilineCompletions == options.multilineCompletions
    IN  AssemblePrompt(
            <<"You are an AI coding assistant that provides accurate and helpful code completions.",
              "Language: " \o language, "">>,
            IF Truthy(options.includeImports) /\ Len(context.imports) > 0
            THEN <<"Relevant imports:">> \o context.imports \o <<"">>
            ELSE <<>>,
            IF Truthy(options.includeDefinitions) /\ Len(context.definitions) > 0
            THEN <<"Relevant definitions:">> \o DefinitionLines(context.definitions)
            ELSE <<>>,
            IF Len(context.precedingLines) > 0
            THEN <<"Preceding code:">> \o context.precedingLines
            ELSE <<>>,
            <<"Current line: " \o context.currentLine>>,
            IF Len(context.followingLines) > 0
            THEN <<"Following code:">> \o context.followingLines
            ELSE <<>>,
            <<"", IF multilineCompletions = JsBool(TRUE) THEN MultilineInstruction
                  ELSE IF multilineCompletions = JsString("auto") THEN AutoInstruction
                  ELSE OneLineInstruction>>)

\* the settings kilo-code.autocomplete.* as the host delivers them
ModeSettings ==
    {JsUndefined, JsString("one-line"), JsString("multiline"), JsString("auto")}
FlagSettings == {JsUndefined, JsBool(TRUE), JsBool(FALSE)}
Settings ==
    [useImports : FlagSettings, onlyMyCode : FlagSettings,
     multilineCompletions : ModeSettings]

\* KiloCodeConfigAdapter.loadConfig: tabAutocompleteOptions
loadConfig(settings) ==
    [useImports |-> JsOr(settings.useImports, JsBool(TRUE)),
     onlyMyCode |-> JsOr(settings.onlyMyCode, JsBool(TRUE)),
     multilineCompletions |-> JsOr(settings.multilineCompletions, JsString("auto"))]

\* the context snapshots
Definition1 == [filepath |-> "a.ts", content |-> "def a"]
Definition2 == [filepath |-> "b.ts", content |-> "def b"]
Contexts ==
    [imports : {<<>>, <<"import a">>},
     definitions : {<<>>, <<Definition1>>, <<Definition1, Definition2>>},
     precedingLines : {<<>>, <<"before">>},
     currentLine : {"cur"},
     followingLines : {<<>>, <<"after">>}]

\* the options a caller of renderPrompt may pass
PromptOptions ==
    [language : {"typescript"},
     includeImports : {JsBool(TRUE), JsBool(FALSE)},
     includeDefinitions : {JsBool(TRUE), JsBool(FALSE)},
     multilineCompletions : {JsBool(TRUE), JsBool(FALSE), JsString("auto")}]

PromptInit ==
    /\ lastCall = NoCall
    /\ streamer = StreamerIdle
    /\ cache = <<>>
    /\ maxSize = DefaultMaxSize
    /\ ttl = DefaultTtl
    /\ now = 0
    /\ lastOp = NoOp
    /\ ProviderIdle("provider", <<"a">>)

\* no call with the same input came right before
NoRepeat == [repeated |-> FALSE, output |-> <<>>]

\* a call renderPrompt(context, options); when the call before it had the
\* same input, that call's output is remembered
RenderCall(context, options) ==
    /\ lastCall' = [fn |-> "renderPrompt",
                    input |-> [context |-> context, options |-> options],
                    output |-> renderPrompt(context, options),
                    before |->
                        IF /\ lastCall.fn = "renderPrompt"
                           /\ lastCall.input = [context |-> context, options |-> options]
                        THEN [repeated |-> TRUE, output |-> lastCall.output]
                        ELSE NoRepeat]
    /\ UNCHANGED <<streamer, cacheVars, providerVars>>

\* the provider's timer callback: loadConfig, then renderPrompt with the
\* options taken from the configuration
ProviderRender(context, settings) ==
    LET conf == loadConfig(settings)
        useImports == JsOr(conf.useImports, JsBool(FALSE))
        useDefinitions == JsOr(conf.onlyMyCode, JsBool(FALSE))
        multilineCompletions == JsOr(conf.multilineCompletions, JsString("auto"))
        options == [language |-> "typescript",
                    includeImports |-> useImports,
                    includeDefinitions |-> useDefinitions,
                    multilineCompletions |-> multilineCompletions]
    IN  /\ lastCall' = [fn |-> "provideInlineCompletionItems",
                        input |-> [context |-> context, settings |-> settings],
                        output |-> renderPrompt(context, options),
                        before |-> NoRepeat]
        /\ UNCHANGED <<streamer, cacheVars, providerVars>>

PromptNext ==
    \/ \E context \in Contexts, options \in PromptOptions : RenderCall(context, options)
    \/ \E context \in Contexts, settings \in Settings : ProviderRender(context, settings)

SpecPrompt == PromptInit /\ [][PromptNext]_vars

\* the index of the first line of p equal to line, 0 when there is none
Pos(p, line) ==
    IF \E i \in 1..Len(p) : p[i] = line
    THEN CHOOSE i \in 1..Len(p) : p[i] = line /\ \A j \in 1..(i - 1) : p[j] # line
    ELSE 0

\* the sections that are present (index above 0) come in the order of idx
InOrder(idx) ==
    \A a, b \in 1..Len(idx) : (a < b /\ idx[a] > 0 /\ idx[b] > 0) => idx[a] < idx[b]

C26_ModeSelectsInstruction ==
    lastCall.fn = "provideInlineCompletionItems" =>
        LET mode == lastCall.input.settings.multilineCompletions
            instruction == lastCall.output[Len(lastCall.output)]
        IN  /\ mode = JsString("multiline") => instruction = MultilineInstruction
            /\ mode = JsString("auto") => instruction = AutoInstruction
            /\ mode = JsString("one-line") => instruction = OneLineInstruction

(***************************************************************************)
(* The streamer specification: one CompletionStreamer, its streamCompletion*)
(* calls with distinct ids, the chunks and failures of their transports,   *)
(* and the cancel operations.                                              *)
(***************************************************************************)

\* String.prototype.trim on the characters of the model
IsSpace(ch) == ch \in {" ", "\n"}

RECURSIVE trimStart(_)
trimStart(str) ==
    IF str # <<>> /\ IsSpace(Head(str)) THEN trimStart(Tail(str)) ELSE str

RECURSIVE trimEnd(_)
trimEnd(str) ==
    IF str # <<>> /\ IsSpace(str[Len(str)])
    THEN trimEnd(SubSeq(str, 1, Len(str) - 1))
    ELSE str

trim(str) == trimEnd(trimStart(str))

\* the index after the run of [\w] characters that starts at i
RECURSIVE WordRunEnd(_, _)
WordRunEnd(str, i) ==
    IF i <= Len(str) /\ str[i] \in TagChars \ {"-"} THEN WordRunEnd(str, i + 1) ELSE i

\* /^```[\w]*\n([\s\S]*?)\n```$/ : the captured group, or the text itself
\* when the pattern does not match
CodeBlockInterior(str) ==
    LET j == WordRunEnd(str, 4)
        n == Len(str)
    IN  IF /\ FenceAt(str, 1)
           /\ j <= n /\ str[j] = "\n"
           /\ n - 3 > j /\ str[n - 3] = "\n" /\ FenceAt(str, n - 2)
        THEN SubSeq(str, j + 1, n - 4)
        ELSE str

\* completion.split("\n") and lines.join("\n")
RECURSIVE SplitLines(_)
SplitLines(str) ==
    IF \E i \in 1..Len(str) : str[i] = "\n"
    THEN LET i == CHOOSE k \in 1..Len(str) :
                      str[k] = "\n" /\ \A m \in 1..(k - 1) : str[m] # "\n"
         IN  <<SubSeq(str, 1, i - 1)>> \o SplitLines(SubSeq(str, i + 1, Len(str)))
    ELSE <<str>>

RECURSIVE JoinLines(_)
JoinLines(lines) ==
    IF lines = <<>> THEN <<>>
    ELSE IF Len(lines) = 1 THEN lines[1]
    ELSE lines[1] \o <<"\n">> \o JoinLines(Tail(lines))

\* the line starts with //, # or /*
IsCommentLine(line) ==
    \/ IsPrefix(<<"/", "/">>, line)
    \/ IsPrefix(<<"#">>, line)
    \/ IsPrefix(<<"/", "*">>, line)

\* the for loop over lines: the number of leading lines to drop
RECURSIVE StartIndex(_, _, _)
StartIndex(lines, i, startIndex) ==
    IF i > Len(lines) THEN startIndex
    ELSE IF IsCommentLine(trim(lines[i])) THEN StartIndex(lines, i + 1, i)
    ELSE IF trim(lines[i]) # <<>> THEN startIndex
    ELSE StartIndex(lines, i + 1, startIndex)

extractCompletion(response) ==
    LET lines == SplitLines(CodeBlockInterior(trim(response)))
    IN  JoinLines(SubSeq(lines, StartIndex(lines, 1, 0) + 1, Len(lines)))

\* what the transport of a call may yield: text chunks, a chunk of another
\* type, and an empty (falsy) chunk
StreamerChunks ==
    {[type |-> "text", text |-> <<"a">>],
     [type |-> "text", text |-> <<" ", "b">>],
     [type |-> "text", text |-> <<"#", "a", "\n", "b">>],
     [type |-> "reasoning", text |-> <<"r">>],
     [type |-> "empty", text |-> <<>>]}

\* the external signals a caller may pass
Signals == {"none", "open", "aborted"}

\* the names of the errors a transport may throw
ErrorNames == {"AbortError", "Error"}

StreamerInit ==
    /\ lastCall = NoCall
    /\ streamer = StreamerIdle
    /\ cache = <<>>
    /\ maxSize = DefaultMaxSize
    /\ ttl = DefaultTtl
    /\ now = 0
    /\ lastOp = NoOp
    /\ ProviderIdle("provider", <<"a">>)

\* the call id returns result: its entry leaves activeRequests
Return(id, call, result, how) ==
    streamer' = [activeRequests |-> streamer.activeRequests \ {id},
                 calls |-> [streamer.calls EXCEPT
                     ![id] = [call EXCEPT !.pc = "returned", !.result = result,
                                          !.endedBy = how]]]

\* streamCompletion(request, id, onPartialCompletion, signal) up to the loop
streamCompletion(id, signal) ==
    /\ streamer.calls[id].pc = "idle"
    /\ streamer' = [activeRequests |-> streamer.activeRequests \cup {id},
                    calls |-> [streamer.calls EXCEPT
                        ![id] = [@ EXCEPT !.pc = "streaming", !.signal = signal]]]
    /\ UNCHANGED <<lastCall, cacheVars, providerVars>>

\* one iteration of the for-await loop of call id on chunk
StreamerDeliver(id, chunk) ==
    LET call == streamer.calls[id]
        isText == chunk.type = "text"
        fullCompletion ==
            IF isText THEN call.fullCompletion \o extractCompletion(chunk.text)
            ELSE call.fullCompletion
        after ==
            [call EXCEPT
                !.consumed = @ + 1,
                !.fullCompletion = fullCompletion,
                !.partials = IF isText
                             THEN Append(@, [completion |-> fullCompletion,
                                             isComplete |-> FALSE, error |-> "none"])
                             ELSE @,
                !.partialsAfterCancel =
                    IF isText /\ (call.cancelled \/ call.signal \in {"aborted", "fired"})
                    THEN @ + 1 ELSE @]
    IN  /\ call.pc = "streaming"
        /\ call.consumed < MaxChunks
        /\ IF chunk.type = "empty"
           THEN streamer' = [streamer EXCEPT !.calls[id].consumed = @ + 1]
           ELSE IF call.aborted
           THEN Return(id, after, [completion |-> fullCompletion, isComplete |-> TRUE,
                                   error |-> "none"], "break")
           ELSE streamer' = [streamer EXCEPT !.calls[id] = after]
        /\ UNCHANGED <<lastCall, cacheVars, providerVars>>

\* the stream of call id is exhausted: the code after the loop
StreamerEnd(id) ==
    LET call == streamer.calls[id]
    IN  /\ call.pc = "streaming"
        /\ Return(id, call, [completion |-> call.fullCompletion, isComplete |-> TRUE,
                             error |-> "none"], "end")
        /\ UNCHANGED <<lastCall, cacheVars, providerVars>>

\* a catch block that reports every error, an AbortError too
CatchResultReportsAbort(name) ==
    [completion |-> <<>>, isComplete |-> FALSE, error |-> name]

\* the result of the catch block for an error called name
CatchResult(name) ==
    IF name = "AbortError"
    THEN [completion |-> <<>>, isComplete |-> FALSE, error |-> "none"]
    ELSE [completion |-> <<>>, isComplete |-> FALSE, error |-> name]

\* the transport of call id throws an error called name
StreamerThrow(id, name) ==
    LET call == streamer.calls[id]
    IN  /\ call.pc = "streaming"
        /\ Return(id, call, CatchResult(name),
                  IF name = "AbortError" THEN "abort-error" ELSE "error")
        /\ UNCHANGED <<lastCall, cacheVars, providerVars>>

\* cancelCompletion(id)
cancelCompletion(id) ==
    /\ streamer' =
          IF id \in streamer.activeRequests
          THEN [activeRequests |-> streamer.activeRequests \ {id},
                calls |-> [streamer.calls EXCEPT
                    ![id] = [@ EXCEPT !.aborted = TRUE, !.cancelled = TRUE]]]
          ELSE streamer
    /\ UNCHANGED <<lastCall, cacheVars, providerVars>>

\* cancelAllCompletions()
cancelAllCompletions ==
    /\ streamer' =
          [activeRequests |-> {},
           calls |-> [id \in StreamerIds |->
               IF id \in streamer.activeRequests
               THEN [streamer.calls[id] EXCEPT !.aborted = TRUE, !.cancelled = TRUE]
               ELSE streamer.calls[id]]]
    /\ UNCHANGED <<lastCall, cacheVars, providerVars>>

\* the external signal of call id aborts: the listener aborts the controller
SignalAbort(id) ==
    /\ streamer.calls[id].pc = "streaming"
    /\ streamer.calls[id].signal = "open"
    /\ streamer' = [streamer EXCEPT !.calls[id] =
                        [@ EXCEPT !.signal = "fired", !.aborted = TRUE,
                                  !.cancelled = TRUE]]
    /\ UNCHANGED <<lastCall, cacheVars, providerVars>>

StreamerNext ==
    \/ \E id \in StreamerIds, signal \in Signals : streamCompletion(id, signal)
    \/ \E id \in StreamerIds, chunk \in StreamerChunks : StreamerDeliver(id, chunk)
    \/ \E id \in StreamerIds : StreamerEnd(id)
    \/ \E id \in StreamerIds, name \in ErrorNames : StreamerThrow(id, name)
    \/ \E id \in StreamerIds : cancelCompletion(id)
    \/ cancelAllCompletions
    \/ \E id \in StreamerIds : SignalAbort(id)

SpecStreamer == StreamerInit /\ [][StreamerNext]_vars

\* the call id has returned
Returned(id) == streamer.calls[id].pc = "returned"

(***************************************************************************)
(* C27 - a streamCompletion call that ends because it was cancelled (the   *)
(* loop stopped on the aborted controller after cancelCompletion,          *)
(* cancelAllCompletions or the external signal, or the transport threw an  *)
(* AbortError) returns a result whose error field is unset.                *)
(***************************************************************************)
C27_CancelIsNoError ==
    \A id \in StreamerIds :
        (Returned(id) /\ streamer.calls[id].endedBy \in {"break", "abort-error"})
            => streamer.calls[id].result.error = "none"

\* one call stopped after cancelCompletion, another on an AbortError
C27_Witness ==
    \E id, other \in StreamerIds :
        /\ Returned(id) /\ streamer.calls[id].endedBy = "break"
        /\ streamer.calls[id].cancelled
        /\ Returned(other) /\ streamer.calls[other].endedBy = "abort-error"

(***************************************************************************)
(* C28 - once cancelCompletion(id) has been called for a call, or its      *)
(* external signal has aborted, onPartialCompletion is never invoked again *)
(* for that id, even if the transport delivers further chunks.             *)
(***************************************************************************)
C28_NoPartialAfterCancel ==
    \A id \in StreamerIds : streamer.calls[id].partialsAfterCancel = 0

(***************************************************************************)
(* C36 - a result with isComplete = true is returned only when the whole   *)
(* stream was consumed to its end: a streamCompletion call that stopped    *)
(* early because of cancellation does not report isComplete = true.        *)
(***************************************************************************)
C36_CompleteOnlyAtStreamEnd ==
    \A id \in StreamerIds :
        (Returned(id) /\ streamer.calls[id].result.isComplete)
            => streamer.calls[id].endedBy = "end"

\* the ids of the calls that are in flight and were not cancelled
InFlightNotCancelled ==
    {id \in StreamerIds :
        streamer.calls[id].pc = "streaming" /\ ~streamer.calls[id].cancelled}

(***************************************************************************)
(* C37 - resource bound: activeRequests holds exactly the ids of the       *)
(* streamCompletion calls that are in flight and not cancelled, so the id  *)
(* of a call that has returned is absent; cancelCompletion on an unknown   *)
(* or finished id changes nothing.                                         *)
(***************************************************************************)
C37_ActiveRequestsExact ==
    /\ [](streamer.activeRequests = InFlightNotCancelled)
    /\ [][\A id \in StreamerIds :
             (cancelCompletion(id) /\ streamer.calls[id].pc # "streaming")
                 => streamer' = streamer]_vars

(***************************************************************************)
(* The cache specification: a cache constructed with any maxSize and ttl   *)
(* of the bounds, driven through its public interface while time passes.   *)
(***************************************************************************)

CacheInit ==
    /\ ComponentsIdle
    /\ cache = <<>>
    /\ maxSize \in 0..MaxCacheSize
    /\ ttl \in 0..MaxTtl
    /\ now = 0
    /\ lastOp = NoOp
    /\ ProviderIdle("provider", <<"a">>)

CacheGet(filepath, content, cursorIndex) ==
    LET key == generateKey(filepath, content, cursorIndex)
        r == get(cache, filepath, content, cursorIndex, now, ttl)
        present == MapHas(cache, key)
        afterSet == lastOp.op = "set" /\ lastOp.key = key
    IN  /\ cache' = r.cache
        /\ lastOp' = [NoOp EXCEPT
                !.op = "get", !.key = key, !.value = r.value, !.found = r.found,
                !.at = now, !.full = size(cache) >= maxSize, !.present = present,
                !.sizeBefore = size(cache),
                !.createdAt = IF present THEN cache[MapIndex(cache, key)].createdAt ELSE 0,
                !.kept = MapHas(r.cache, key),
                !.afterSet = afterSet,
                !.setValue = IF afterSet THEN lastOp.value ELSE <<>>,
                !.setAt = IF afterSet THEN lastOp.at ELSE 0,
                !.setFull = afterSet /\ lastOp.full,
                !.setReplaced = afterSet /\ lastOp.replaced]
        /\ UNCHANGED <<componentVars, maxSize, ttl, now, providerVars>>

CacheSet(filepath, content, cursorIndex, completion) ==
    LET key == generateKey(filepath, content, cursorIndex)
        c2 == set(cache, filepath, content, cursorIndex, completion, now, maxSize)
        evicts == size(cache) >= maxSize /\ cache # <<>>
        oldest == cache[OldestIndex(cache)]
    IN  /\ cache' = c2
        /\ lastOp' = [NoOp EXCEPT
                !.op = "set", !.key = key, !.value = completion, !.at = now,
                !.full = size(cache) >= maxSize, !.present = MapHas(cache, key),
                !.replaced = /\ MapHas(cache, key)
                             /\ cache[MapIndex(cache, key)].completion # completion,
                !.createdAt = now, !.kept = MapHas(c2, key),
                !.sizeBefore = size(cache), !.evicted = evicts,
                !.evictedTouched = IF evicts THEN oldest.touched ELSE 0,
                !.tied = /\ evicts
                         /\ \E i \in 1..Len(cache) :
                               /\ cache[i].key # oldest.key
                               /\ cache[i].timestamp = oldest.timestamp]
        /\ UNCHANGED <<componentVars, maxSize, ttl, now, providerVars>>

CacheClear ==
    /\ cache # <<>>
    /\ cache' = clear(cache)
    /\ lastOp' = [NoOp EXCEPT !.op = "clear", !.at = now]
    /\ UNCHANGED <<componentVars, maxSize, ttl, now, providerVars>>

\* one millisecond passes
CacheTick ==
    /\ now < MaxNow
    /\ now' = now + 1
    /\ UNCHANGED <<componentVars, cache, maxSize, ttl, lastOp, providerVars>>

CacheNext ==
    \/ \E f \in Filepaths, d \in Contents, i \in CursorIndexes : CacheGet(f, d, i)
    \/ \E f \in Filepaths, d \in Contents, i \in CursorIndexes, v \in Completions :
          CacheSet(f, d, i, v)
    \/ CacheClear
    \/ CacheTick

SpecCache == CacheInit /\ [][CacheNext]_vars

(***************************************************************************)
(* C9 - cache round trip: a get(k) that directly follows set(k, v), with   *)
(* no more than ttl elapsed in between, returns v; also when the cache was *)
(* full before the set and when k was present with another completion.     *)
(***************************************************************************)
C9_RoundTrip ==
    (lastOp.op = "get" /\ lastOp.afterSet /\ lastOp.at - lastOp.setAt <= ttl)
        => (lastOp.found /\ lastOp.value = lastOp.setValue)

\* a get that follows a set which found the cache full and replaced another
\* completion of the same key
C9_Witness ==
    /\ lastOp.op = "get" /\ lastOp.afterSet /\ lastOp.at - lastOp.setAt <= ttl
    /\ maxSize = MaxCacheSize /\ lastOp.setFull /\ lastOp.setReplaced
    /\ lastOp.found /\ lastOp.value = <<"x">>

(***************************************************************************)
(* C10 - TTL expiry: a get of an entry whose creating set lies more than   *)
(* ttl back returns absent and removes the entry, whatever gets and sets   *)
(* happened in between.                                                    *)
(***************************************************************************)
C10_ExpiresAfterCreation ==
    (lastOp.op = "get" /\ lastOp.present /\ lastOp.at - lastOp.createdAt > ttl)
        => (~lastOp.found /\ ~lastOp.kept)

(***************************************************************************)
(* C11 - bounded size: after any sequence of get, set and clear on a cache *)
(* constructed with maxSize, size() <= maxSize.                            *)
(***************************************************************************)
C11_BoundedSize == size(cache) <= maxSize

(***************************************************************************)
(* C12 - LRU eviction: a set of a new key into a cache that holds maxSize  *)
(* entries leaves exactly maxSize entries, and whenever set evicts, the    *)
(* evicted entry is the least recently touched one (a set and a successful *)
(* get are touches), also when touches share a clock value.                *)
(***************************************************************************)
C12_EvictsLeastRecentlyTouched ==
    lastOp.op = "set"
        => /\ (~lastOp.present /\ lastOp.sizeBefore = maxSize) => size(cache) = maxSize
           /\ lastOp.evicted => lastOp.evictedTouched = 1

(***************************************************************************)
(* C34 - overwriting does not evict: set(k, v) on a key k that is present  *)
(* leaves every other entry in the cache and the size unchanged, also when *)
(* the cache holds exactly maxSize entries.                                *)
(***************************************************************************)
C34_OverwriteDoesNotEvict ==
    [][\A f \in Filepaths, c \in Contents, i \in CursorIndexes, v \in Completions :
          (CacheSet(f, c, i, v) /\ MapHas(cache, generateKey(f, c, i)))
              => /\ size(cache') = size(cache)
                 /\ \A j \in 1..Len(cache) :
                       cache[j].key # generateKey(f, c, i)
                           => \E m \in 1..Len(cache') :
                                 /\ cache'[m].key = cache[j].key
                                 /\ cache'[m].completion = cache[j].completion
                                 /\ cache'[m].timestamp = cache[j].timestamp]_vars

====
